---------------------------- MODULE Spec2Model ----------------------------
(***************************************************************************)
(* Model of python-service: the simulated ledger (TradingEnv), the         *)
(* observation builder (TradingEnv._get_observation), the heuristic        *)
(* decision rule (AgentEvolverWrapper.act) and the /act endpoint.          *)
(*                                                                         *)
(* Floating-point values are modelled as exact rationals n/d in lowest     *)
(* terms, extended with the IEEE special values: d = 0 stands for NaN      *)
(* (n = 0), +inf (n = 1) and -inf (n = -1).                                *)
(***************************************************************************)
EXTENDS Integers, Sequences, FiniteSets, TLC

VARIABLES
    initial_balance,  \* TradingEnv.initial_balance
    balance,          \* TradingEnv.balance
    position,         \* TradingEnv.position
    entry_price,      \* TradingEnv.entry_price
    fills,            \* fee-bearing fills since construction or the last reset (bounds the arithmetic)
    call,             \* the most recent call made on the service, with its inputs
    ret,              \* what that call returned
    built_obs,        \* /act: the observation as built, before the price override
    last_buy_price,   \* history: price of the most recent Buy that took effect
    thr               \* concurrent step() calls: per thread, its program counter and locals

vars == <<initial_balance, balance, position, entry_price, fills, call, ret,
          built_obs, last_buy_price, thr>>

---------------------------------------------------------------------------
(* Bounds of the model *)

\* Fee-bearing fills (Buy or Sell that changes the ledger) allowed between resets.
MaxFills == 2

\* Concurrent step() calls of the concurrent specification.
NumThreads == 2

---------------------------------------------------------------------------
(* Numbers *)

Abs(x) == IF x < 0 THEN -x ELSE x

RECURSIVE Gcd(_, _)
Gcd(a, b) == IF b = 0 THEN a ELSE Gcd(b, a % b)

Sgn(x) == IF x > 0 THEN 1 ELSE IF x < 0 THEN -1 ELSE 0

NaN == [n |-> 0, d |-> 0]
Inf == [n |-> 1, d |-> 0]

IsNaN(a) == a.d = 0 /\ a.n = 0
IsInf(a) == a.d = 0 /\ a.n # 0
IsFinite(a) == a.d # 0

\* The rational n/d (d # 0) in lowest terms with a positive denominator.
Rat(n, d) ==
    LET g == Gcd(Abs(n), Abs(d))
        s == Sgn(d)
    IN  [n |-> s * (n \div g), d |-> s * (d \div g)]

R(i) == [n |-> i, d |-> 1]
Zero == R(0)
One == R(1)

Neg(a) == [n |-> -a.n, d |-> a.d]

Add(a, b) ==
    IF IsNaN(a) \/ IsNaN(b) THEN NaN
    ELSE IF IsInf(a) /\ IsInf(b) THEN (IF a.n = b.n THEN a ELSE NaN)
    ELSE IF IsInf(a) THEN a
    ELSE IF IsInf(b) THEN b
    ELSE LET g == Gcd(a.d, b.d)
             l == (a.d \div g) * b.d
         IN  Rat(a.n * (l \div a.d) + b.n * (l \div b.d), l)

Sub(a, b) == Add(a, Neg(b))

Mul(a, b) ==
    IF IsNaN(a) \/ IsNaN(b) THEN NaN
    ELSE IF IsInf(a) \/ IsInf(b)
         THEN (IF a.n = 0 \/ b.n = 0 THEN NaN
               ELSE [n |-> Sgn(a.n) * Sgn(b.n), d |-> 0])
    ELSE LET g1 == Gcd(Abs(a.n), b.d)
             g2 == Gcd(Abs(b.n), a.d)
         IN  [n |-> (a.n \div g1) * (b.n \div g2), d |-> (a.d \div g2) * (b.d \div g1)]

\* 1/a with the IEEE conventions 1/0 = inf, 1/inf = 0.
Inv(a) ==
    IF IsNaN(a) THEN NaN
    ELSE IF IsInf(a) THEN Zero
    ELSE IF a.n = 0 THEN Inf
    ELSE IF a.n < 0 THEN [n |-> -a.d, d |-> -a.n]
    ELSE [n |-> a.d, d |-> a.n]

Div(a, b) == Mul(a, Inv(b))

\* Comparisons: every comparison with NaN is false.
Gt(a, b) == ~IsNaN(a) /\ ~IsNaN(b) /\ Sub(a, b).n > 0
Lt(a, b) == Gt(b, a)
Eq(a, b) == ~IsNaN(a) /\ ~IsNaN(b) /\ a = b

---------------------------------------------------------------------------
(* Market data: what exchange.fetch_ohlcv can hand back *)

\* limit=20 candles are requested from the exchange.
Limit == 20
\* rolling(window=7), rolling(window=14) and the RSI period.
ShortWindow == 7
LongWindow == 14
RsiPeriod == 14

Const(n, v) == [i \in 1..n |-> v]

\* Close columns of the candle lists the exchange may return.
FlatCloses == Const(Limit, 100)
RisingCloses == Const(Limit - 1, 100) \o <<200>>
FallingCloses == Const(Limit - 1, 200) \o <<100>>
ZigZagCloses == [i \in 1..Limit |-> IF i % 2 = 0 THEN 200 ELSE 100]
ShortCloses == <<100, 200>>
ZeroCloses == Const(Limit - 1, 100) \o <<0>>
NoCloses == << >>

CloseLists == {FlatCloses, RisingCloses, FallingCloses, ZigZagCloses,
               ShortCloses, ZeroCloses, NoCloses}

\* A fetch either raises (ok = FALSE) or returns candles.
FetchFailed == [ok |-> FALSE, closes |-> << >>]
Fetches == {FetchFailed} \cup {[ok |-> TRUE, closes |-> c] : c \in CloseLists}

---------------------------------------------------------------------------
(* Observation builder *)

RECURSIVE SumFrom(_, _)
SumFrom(s, i) == IF i > Len(s) THEN Zero ELSE Add(s[i], SumFrom(s, i + 1))

\* series.rolling(window).mean().iloc[-1]
RollingMeanLast(s, window) ==
    IF Len(s) < window THEN NaN
    ELSE Div(SumFrom(s, Len(s) - window + 1), R(window))

\* series.diff()
Diff(s) == [i \in 1..Len(s) |-> IF i = 1 THEN NaN ELSE Sub(s[i], s[i - 1])]

CalculateRsi(series, period) ==
    LET delta == Diff(series)
        gains == [i \in 1..Len(delta) |-> IF Gt(delta[i], Zero) THEN delta[i] ELSE Zero]
        losses == [i \in 1..Len(delta) |->
                      Neg(IF Lt(delta[i], Zero) THEN delta[i] ELSE Zero)]
        gain == RollingMeanLast(gains, period)
        loss == RollingMeanLast(losses, period)
        rs == Div(gain, loss)
    IN  Sub(R(100), Div(R(100), Add(One, rs)))

CalculatePnl(current_price, pos, entry) ==
    IF Eq(pos, Zero) THEN Zero
    ELSE Mul(Sub(current_price, entry), pos)

EmptyObs == [k \in {} |-> Zero]

\* The features computed from the candles alone.
Indicators(closes) ==
    LET close == [i \in 1..Len(closes) |-> R(closes[i])]
    IN  [price |-> close[Len(close)],
         ma_7 |-> RollingMeanLast(close, ShortWindow),
         ma_14 |-> RollingMeanLast(close, LongWindow),
         rsi |-> CalculateRsi(close, RsiPeriod)]

\* Indicators of each candle list of the model, computed once.
IndicatorTable == [c \in CloseLists \ {NoCloses} |-> Indicators(c)]

\* The body of the try block: it raises when the fetch raises, and when
\* .iloc[-1] finds no row.
ObservationBody(fetch, bal, pos, entry) ==
    IF ~fetch.ok \/ Len(fetch.closes) = 0
    THEN [raised |-> TRUE, value |-> EmptyObs]
    ELSE LET ind == IndicatorTable[fetch.closes]
         IN  [raised |-> FALSE,
              value |-> [price |-> ind.price,
                         ma_7 |-> ind.ma_7,
                         ma_14 |-> ind.ma_14,
                         rsi |-> ind.rsi,
                         balance |-> bal,
                         position |-> pos,
                         pnl |-> CalculatePnl(ind.price, pos, entry)]]

\* A builder that lets the failure escape instead of catching it.
GetObservationUncaught(fetch, bal, pos, entry) == ObservationBody(fetch, bal, pos, entry)

\* _get_observation: any exception of the body is caught and {} returned.
GetObservation(fetch, bal, pos, entry) ==
    LET r == ObservationBody(fetch, bal, pos, entry)
    IN  IF r.raised THEN [raised |-> FALSE, value |-> EmptyObs] ELSE r

\* dict.get(key, 0)
Get(obs, key) == IF key \in DOMAIN obs THEN obs[key] ELSE Zero

---------------------------------------------------------------------------
(* Simulated ledger: TradingEnv.step and TradingEnv.reset *)

\* fee = cost * 0.001
FeeRate == Rat(1, 1000)

Ledger(bal, pos, entry) == [balance |-> bal, position |-> pos, entry_price |-> entry]

\* A price test that never reports missing data.
NoPriceNever(current_price) == FALSE

\* if current_price == 0
NoPrice(current_price) == Eq(current_price, Zero)

\* A Buy guard that lets every Buy through.
CanBuyAlways(bal) == TRUE

\* if self.balance > 0
CanBuy(bal) == Gt(bal, Zero)

\* if self.position > 0
CanSell(pos) == Gt(pos, Zero)

\* A Buy fill that forgets to spend the balance.
BuyFillKeepsBalance(bal, pos, entry, current_price) ==
    LET amount == Div(bal, current_price)
        cost == Mul(amount, current_price)
        fee == Mul(cost, FeeRate)
    IN  Ledger(bal, Add(pos, Sub(amount, Div(fee, current_price))), current_price)

\* A Buy fill that forgets to record the entry price.
BuyFillKeepsEntry(bal, pos, entry, current_price) ==
    LET amount == Div(bal, current_price)
        cost == Mul(amount, current_price)
        fee == Mul(cost, FeeRate)
    IN  Ledger(Zero, Add(pos, Sub(amount, Div(fee, current_price))), entry)

\* The body of the Buy branch ("Buy max").
BuyFill(bal, pos, entry, current_price) ==
    LET amount == Div(bal, current_price)
        cost == Mul(amount, current_price)
        fee == Mul(cost, FeeRate)
    IN  Ledger(Zero, Add(pos, Sub(amount, Div(fee, current_price))), current_price)

\* A Sell fill that charges no fee.
SellFillNoFee(bal, pos, entry, current_price) ==
    Ledger(Add(bal, Mul(pos, current_price)), Zero, entry)

\* The body of the Sell branch, without the reward.
SellFill(bal, pos, entry, current_price) ==
    LET revenue == Mul(pos, current_price)
        fee == Mul(revenue, FeeRate)
    IN  Ledger(Add(bal, Sub(revenue, fee)), Zero, entry)

\* reward = (current_price - self.entry_price) / self.entry_price
SellReward(entry, current_price) == Div(Sub(current_price, entry), entry)

\* What step() hands back after the trade branches: the ledger it leaves
\* and the returned tuple with total_value.
Returned(obs, current_price, after, reward) ==
    [ledger |-> after,
     ret |-> [raised |-> FALSE, obs |-> obs, reward |-> reward, done |-> FALSE,
              info |-> [total_value |->
                           Add(after.balance, Mul(after.position, current_price))]]]

\* The if/elif over the action code, at a usable price.
Trade(action, obs, current_price, bal, pos, entry) ==
    IF action = 1 /\ CanBuy(bal)
    THEN Returned(obs, current_price, BuyFill(bal, pos, entry, current_price), Zero)
    ELSE IF action = 2 /\ CanSell(pos)
    THEN Returned(obs, current_price, SellFill(bal, pos, entry, current_price),
                  SellReward(entry, current_price))
    ELSE Returned(obs, current_price, Ledger(bal, pos, entry), Zero)

\* step() from the observation r it built: the early return on a missing
\* price, else the trade.
StepOn(action, r, bal, pos, entry) ==
    IF r.raised
    THEN [ledger |-> Ledger(bal, pos, entry), ret |-> [raised |-> TRUE]]
    ELSE IF NoPrice(Get(r.value, "price"))
    THEN [ledger |-> Ledger(bal, pos, entry),
          ret |-> [raised |-> FALSE, obs |-> r.value, reward |-> Zero, done |-> FALSE,
                   info |-> [error |-> "No price data"]]]
    ELSE Trade(action, r.value, Get(r.value, "price"), bal, pos, entry)

\* step(action): the ledger it leaves and the tuple it returns.
StepOutcome(action, fetch, bal, pos, entry) ==
    StepOn(action, GetObservation(fetch, bal, pos, entry), bal, pos, entry)

\* Whether step(action) runs the body of its Buy or its Sell branch.
Fills(action, r, bal, pos) ==
    /\ ~r.raised
    /\ ~NoPrice(Get(r.value, "price"))
    /\ (action = 1 /\ CanBuy(bal)) \/ (action = 2 /\ CanSell(pos))

\* A reset that leaves the entry price as it was.
ResetLedgerKeepsEntry(init) == Ledger(init, Zero, entry_price)

\* reset(): the three assignments.
ResetLedger(init) == Ledger(init, Zero, Zero)

---------------------------------------------------------------------------
(* Decision rule: AgentEvolverWrapper.act *)

\* f"{x:.2f}": the value in hundredths, rounded half to even; inf and nan
\* print as words.
Fmt2(x) ==
    IF IsNaN(x) THEN [word |-> "nan", hundredths |-> 0]
    ELSE IF IsInf(x) THEN [word |-> IF x.n > 0 THEN "inf" ELSE "-inf", hundredths |-> 0]
    ELSE LET q == (100 * x.n) \div x.d
             rem == (100 * x.n) % x.d
             up == 2 * rem > x.d \/ (2 * rem = x.d /\ q % 2 = 1)
         IN  [word |-> "", hundredths |-> IF up THEN q + 1 ELSE q]

Confidence == Rat(85, 100)

AgentAct(observation) ==
    LET ma_7 == Get(observation, "ma_7")
        ma_14 == Get(observation, "ma_14")
    IN  IF Gt(ma_7, ma_14)
        THEN [action |-> "Buy", confidence |-> Confidence,
              reasoning |-> [text |-> "Golden Cross", args |-> <<Fmt2(ma_7), Fmt2(ma_14)>>],
              observation |-> observation]
        ELSE IF Lt(ma_7, ma_14)
        THEN [action |-> "Sell", confidence |-> Confidence,
              reasoning |-> [text |-> "Death Cross", args |-> <<Fmt2(ma_7), Fmt2(ma_14)>>],
              observation |-> observation]
        ELSE [action |-> "Hold", confidence |-> Zero,
              reasoning |-> [text |-> "Market conditions are neutral.", args |-> << >>],
              observation |-> observation]

---------------------------------------------------------------------------
(* The /act endpoint *)

\* Request prices: << >> is an absent (None) price, <<p>> a given one.
NoReqPrice == << >>
ReqPrices == {NoReqPrice, <<Zero>>, <<R(100)>>, <<R(150)>>}

\* if request.price: (None and 0.0 are falsy)
Truthy(req_price) == Len(req_price) = 1 /\ req_price[1] # Zero

\* An override that throws the fetched fields away.
OverridePriceOnly(obs, req_price) ==
    IF Truthy(req_price) THEN [price |-> req_price[1]] ELSE obs

\* if request.price: obs["price"] = request.price
OverridePrice(obs, req_price) ==
    IF Truthy(req_price)
    THEN [k \in DOMAIN obs \cup {"price"} |->
             IF k = "price" THEN req_price[1] ELSE obs[k]]
    ELSE obs

\* ActionResponse(...) from the decision d.
Respond(d) ==
    [status |-> 200, action |-> d.action, reasoning |-> d.reasoning,
     confidence |-> d.confidence, metrics |-> d.observation]

\* The handler from the observation r it built; an exception inside the try
\* becomes HTTP 500.
ActOn(req_price, r) ==
    IF r.raised
    THEN [built |-> EmptyObs, response |-> [status |-> 500]]
    ELSE [built |-> r.value,
          response |-> Respond(AgentAct(OverridePrice(r.value, req_price)))]

\* The handler: the response it answers with, and the observation it built.
ActOutcome(req_price, fetch, bal, pos, entry) ==
    ActOn(req_price, GetObservation(fetch, bal, pos, entry))

---------------------------------------------------------------------------
(* The service, one call at a time *)

\* initial_balance: the default 1000.0, and an empty account.
InitialBalances == {Zero, R(1000)}

\* Action codes: 0=Hold, 1=Buy, 2=Sell; 3 is an unrecognised code.
Actions == {0, 1, 2, 3}

\* Observations handed straight to AgentEvolverWrapper.act.
MaValues == {NaN, R(100), R(200)}
DecideInputs ==
    {EmptyObs}
    \cup {[ma_7 |-> a] : a \in MaValues}
    \cup {[ma_14 |-> b] : b \in MaValues}
    \cup {[ma_7 |-> a, ma_14 |-> b] : a \in MaValues, b \in MaValues}

Threads == 1..NumThreads

Call(op, action, fetch, req_price, input) ==
    [op |-> op, action |-> action, fetch |-> fetch, req_price |-> req_price,
     input |-> input]

\* A thread that has not called step() yet: its program counter and the
\* locals of the call (x is the right-hand side of the += it is about to do,
\* tmp the attribute value the += has loaded).
IdleThread == [pc |-> "idle", action |-> 0, fetch |-> FetchFailed, price |-> Zero,
               x |-> Zero, tmp |-> Zero, reward |-> Zero, total_value |-> Zero]

Init ==
    /\ initial_balance \in InitialBalances
    /\ balance = initial_balance
    /\ position = Zero
    /\ entry_price = Zero
    /\ fills = 0
    /\ call = Call("init", 0, FetchFailed, NoReqPrice, EmptyObs)
    /\ ret = EmptyObs
    /\ built_obs = EmptyObs
    /\ last_buy_price = Zero
    /\ thr = [t \in Threads |-> IdleThread]

\* env.step(action), the exchange answering with fetch.
Step(action, fetch) ==
    LET filled == Fills(action, GetObservation(fetch, balance, position, entry_price),
                        balance, position)
    IN  /\ filled => fills < MaxFills
        /\ LET out == StepOutcome(action, fetch, balance, position, entry_price)
           IN  /\ balance' = out.ledger.balance
               /\ position' = out.ledger.position
               /\ entry_price' = out.ledger.entry_price
               /\ ret' = out.ret
               /\ last_buy_price' = IF filled /\ action = 1
                                    THEN Get(out.ret.obs, "price")
                                    ELSE last_buy_price
        /\ fills' = IF filled THEN fills + 1 ELSE fills
        /\ call' = Call("step", action, fetch, NoReqPrice, EmptyObs)
        /\ built_obs' = EmptyObs
        /\ UNCHANGED <<initial_balance, thr>>

\* env.reset(), the exchange answering with fetch.
Reset(fetch) ==
    LET l == ResetLedger(initial_balance)
    IN  /\ balance' = l.balance
        /\ position' = l.position
        /\ entry_price' = l.entry_price
        /\ fills' = 0
        /\ call' = Call("reset", 0, fetch, NoReqPrice, EmptyObs)
        /\ ret' = GetObservation(fetch, l.balance, l.position, l.entry_price)
        /\ built_obs' = EmptyObs
        /\ UNCHANGED <<initial_balance, last_buy_price, thr>>

\* POST /act with request.price = req_price, the exchange answering with fetch.
Act(req_price, fetch) ==
    LET out == ActOutcome(req_price, fetch, balance, position, entry_price)
    IN  /\ call' = Call("act", 0, fetch, req_price, EmptyObs)
        /\ ret' = out.response
        /\ built_obs' = out.built
        /\ UNCHANGED <<initial_balance, balance, position, entry_price, fills,
                       last_buy_price, thr>>

\* agent.act(observation) on an observation of the caller's making.
Decide(observation) ==
    /\ call' = Call("decide", 0, FetchFailed, NoReqPrice, observation)
    /\ ret' = AgentAct(observation)
    /\ built_obs' = EmptyObs
    /\ UNCHANGED <<initial_balance, balance, position, entry_price, fills,
                   last_buy_price, thr>>

Next ==
    \/ \E a \in Actions, f \in Fetches : Step(a, f)
    \/ \E f \in Fetches : Reset(f)
    \/ \E p \in ReqPrices, f \in Fetches : Act(p, f)
    \/ \E o \in DecideInputs : Decide(o)

Spec == Init /\ [][Next]_vars

---------------------------------------------------------------------------
(* Properties of the service, one call at a time *)

UnchangedLedger == UNCHANGED <<balance, position, entry_price>>

\* C1: after any sequence of step and reset calls, balance > 0 and
\* position > 0 never hold together.
LedgerInvariant == ~(Gt(balance, Zero) /\ Gt(position, Zero))

\* A Sell has just closed a position that an earlier Buy opened.
LedgerInvariantWitness ==
    /\ call.op = "step" /\ call.action = 2
    /\ fills = 2
    /\ Gt(balance, Zero) /\ position = Zero

\* C3: an /act request whose market-data fetch fails builds the empty
\* observation and is answered successfully with Hold at confidence 0.0,
\* with or without a price in the request.
FailSoftDecision ==
    (call.op = "act" /\ ~call.fetch.ok) =>
        /\ built_obs = EmptyObs
        /\ ret.status = 200
        /\ ret.action = "Hold"
        /\ ret.confidence = Zero

\* A failed fetch on a request that carries a price override.
FailSoftDecisionWitness ==
    /\ call.op = "act" /\ ~call.fetch.ok
    /\ call.req_price = <<R(150)>>
    /\ ret.metrics = [price |-> R(150)]
    /\ ret.action = "Hold"

\* C4: a step whose observation has a zero or missing price leaves balance,
\* position and entry_price unchanged and returns reward 0 with the
\* "No price data" error tag, whatever the action code.
NoPriceNoMutation ==
    [][(call'.op = "step" /\ ~ret'.raised /\ Get(ret'.obs, "price") = Zero) =>
          /\ UnchangedLedger
          /\ ret'.reward = Zero
          /\ ret'.info = [error |-> "No price data"]]_vars

\* A Buy with money to spend, answered by candles whose last close is 0.
NoPriceNoMutationWitness ==
    /\ call.op = "step" /\ call.action = 1
    /\ call.fetch.ok /\ call.fetch.closes = ZeroCloses
    /\ ret.info = [error |-> "No price data"]
    /\ balance = R(1000) /\ position = Zero

\* C6: Buy at price p > 0 from Flat with balance b > 0 leaves
\* position = (b/p)*(1 - 0.001), balance = 0 and entry_price = p; with
\* balance = 0 or a position already held, Buy changes nothing.
BuyTransition ==
    [][(/\ call'.op = "step" /\ call'.action = 1
        /\ ~ret'.raised /\ Gt(Get(ret'.obs, "price"), Zero)) =>
          /\ (position = Zero /\ Gt(balance, Zero)) =>
                /\ position' = Mul(Div(balance, ret'.obs.price), Sub(One, FeeRate))
                /\ balance' = Zero
                /\ entry_price' = ret'.obs.price
          /\ (balance = Zero \/ Gt(position, Zero)) => UnchangedLedger]_vars

\* balance 1000 bought at 100: position 9.99, entry price 100.
BuyTransitionWitness ==
    /\ call.op = "step" /\ call.action = 1
    /\ position = Rat(999, 100) /\ balance = Zero /\ entry_price = R(100)

\* C7: Sell at price p > 0 from Long leaves position = 0 and
\* balance = position*p less the 0.1% fee, and reports the reward
\* (p - entry_price)/entry_price; from Flat, Sell changes nothing and the
\* reward is 0.
SellTransition ==
    [][(/\ call'.op = "step" /\ call'.action = 2
        /\ ~ret'.raised /\ Gt(Get(ret'.obs, "price"), Zero)) =>
          /\ Gt(position, Zero) =>
                /\ position' = Zero
                /\ balance' = Sub(Mul(position, ret'.obs.price),
                                  Mul(Mul(position, ret'.obs.price), FeeRate))
                /\ ret'.reward = Div(Sub(ret'.obs.price, entry_price), entry_price)
          /\ position = Zero =>
                /\ UnchangedLedger
                /\ ret'.reward = Zero]_vars

\* 9.99 bought at 100 and sold at 200: balance 1996.002, reward 1.
SellTransitionWitness ==
    /\ call.op = "step" /\ call.action = 2
    /\ position = Zero /\ balance = Rat(1996002, 1000)
    /\ ret.reward = One

\* C8: an /act request that carries a price is answered with metrics that
\* differ from the observation it built in the price field only: the
\* indicators are those of the fetched candles, balance, position and pnl
\* those of the ledger, and the ledger is left as it was.
PartialPriceOverride ==
    [][(call'.op = "act" /\ Len(call'.req_price) = 1) =>
          /\ UnchangedLedger
          /\ ret'.status = 200
          /\ DOMAIN ret'.metrics \ {"price"} = DOMAIN built_obs' \ {"price"}
          /\ \A k \in DOMAIN built_obs' \ {"price"} : ret'.metrics[k] = built_obs'[k]
          /\ built_obs' # EmptyObs =>
                /\ ret'.metrics.ma_7 = IndicatorTable[call'.fetch.closes].ma_7
                /\ ret'.metrics.ma_14 = IndicatorTable[call'.fetch.closes].ma_14
                /\ ret'.metrics.rsi = IndicatorTable[call'.fetch.closes].rsi
                /\ ret'.metrics.balance = balance
                /\ ret'.metrics.position = position
                /\ ret'.metrics.pnl =
                       CalculatePnl(IndicatorTable[call'.fetch.closes].price,
                                    position, entry_price)]_vars

\* A price of 150 sent while a position bought at 100 is held and the
\* exchange reports a last close of 200.
PartialPriceOverrideWitness ==
    /\ call.op = "act" /\ call.req_price = <<R(150)>>
    /\ call.fetch.ok /\ call.fetch.closes = ZigZagCloses
    /\ Gt(position, Zero) /\ entry_price = R(100)
    /\ built_obs.price = R(200)
    /\ ret.metrics.price = R(150)
    /\ ret.metrics.ma_7 = Rat(1100, 7)
    /\ ret.metrics.pnl = R(999)

\* C9: reset() leaves balance = initial_balance, position = 0 and
\* entry_price = 0, whether its fetch succeeds or fails.
ResetRoundTrip ==
    call.op = "reset" =>
        /\ balance = initial_balance
        /\ position = Zero
        /\ entry_price = Zero

\* A reset with a failing fetch, after a Buy at 200 had taken effect.
ResetRoundTripWitness ==
    /\ call.op = "reset" /\ ~call.fetch.ok
    /\ last_buy_price = R(200)
    /\ balance = R(1000)

\* C10: while a position is held, entry_price is non-zero and is the price
\* of the most recent Buy that took effect, so the Sell reward never divides
\* by zero.
EntryPriceOfOpenPosition ==
    /\ Gt(position, Zero) => (entry_price # Zero /\ entry_price = last_buy_price)
    /\ (call.op = "step" /\ ~ret.raised) => IsFinite(ret.reward)

\* A Buy at 100 that did nothing, on a position bought at 200.
EntryPriceOfOpenPositionWitness ==
    /\ Gt(position, Zero) /\ entry_price = R(200)
    /\ call.op = "step" /\ call.action = 1
    /\ call.fetch.ok /\ call.fetch.closes = FallingCloses
    /\ ret.obs.price = R(100)
    /\ ret.obs.pnl = Neg(Rat(999, 2))

\* C5: the decision is Hold with confidence 0.0 and the neutral reasoning
\* whenever the two moving averages are equal or either of them is missing
\* or NaN; it is Buy or Sell only when both are present and strictly ordered.
DecisionFallThrough ==
    call.op = "decide" =>
        LET o == call.input
            Present(k) == k \in DOMAIN o /\ ~IsNaN(o[k])
            ordered == Present("ma_7") /\ Present("ma_14") /\ o.ma_7 # o.ma_14
        IN  /\ ~ordered =>
                  /\ ret.action = "Hold"
                  /\ ret.confidence = Zero
                  /\ ret.reasoning.text = "Market conditions are neutral."
            /\ ret.action \in {"Buy", "Sell"} => ordered

---------------------------------------------------------------------------
(* Concurrent step() calls on the one process-wide env *)

\* What the exchange answers during the concurrent calls.
ConcFetches == {[ok |-> TRUE, closes |-> RisingCloses],
                [ok |-> TRUE, closes |-> FallingCloses]}

\* The calls find the ledger as constructed, with the default balance.
InitConc ==
    /\ initial_balance = R(1000)
    /\ balance = initial_balance
    /\ position = Zero
    /\ entry_price = Zero
    /\ fills = 0
    /\ call = Call("init", 0, FetchFailed, NoReqPrice, EmptyObs)
    /\ ret = EmptyObs
    /\ built_obs = EmptyObs
    /\ last_buy_price = Zero
    /\ thr = [t \in Threads |-> IdleThread]

SeqVars == <<initial_balance, fills, call, ret, built_obs, last_buy_price>>

Goto(t, pc) == thr' = [thr EXCEPT ![t].pc = pc]

\* Thread t calls step(action): the observation is built and the price read
\* from it; a zero price returns at once, else the action code picks the branch.
Begin(t, action, fetch) ==
    /\ thr[t].pc = "idle"
    /\ LET price == Get(GetObservation(fetch, balance, position, entry_price).value,
                        "price")
       IN  thr' = [thr EXCEPT ![t] =
                     [@ EXCEPT !.action = action, !.fetch = fetch, !.price = price,
                               !.pc = IF NoPrice(price) THEN "done"
                                      ELSE IF action = 1 THEN "l79"
                                      ELSE IF action = 2 THEN "l89"
                                      ELSE "l100"]]
    /\ UNCHANGED <<balance, position, entry_price, SeqVars>>

\* if self.balance > 0:
L79(t) ==
    /\ thr[t].pc = "l79"
    /\ Goto(t, IF CanBuy(balance) THEN "l81" ELSE "l100")
    /\ UNCHANGED <<balance, position, entry_price, SeqVars>>

\* amount = self.balance / current_price; cost; fee; and the right-hand side
\* amount - fee/current_price
L81(t) ==
    /\ thr[t].pc = "l81"
    /\ LET amount == Div(balance, thr[t].price)
           cost == Mul(amount, thr[t].price)
           fee == Mul(cost, FeeRate)
       IN  thr' = [thr EXCEPT ![t].x = Sub(amount, Div(fee, thr[t].price)),
                              ![t].pc = "l84r"]
    /\ UNCHANGED <<balance, position, entry_price, SeqVars>>

\* self.position += ...: the load of self.position
L84Read(t) ==
    /\ thr[t].pc = "l84r"
    /\ thr' = [thr EXCEPT ![t].tmp = position, ![t].pc = "l84w"]
    /\ UNCHANGED <<balance, position, entry_price, SeqVars>>

\* self.position += ...: the store
L84Write(t) ==
    /\ thr[t].pc = "l84w"
    /\ position' = Add(thr[t].tmp, thr[t].x)
    /\ Goto(t, "l85")
    /\ UNCHANGED <<balance, entry_price, SeqVars>>

\* self.balance = 0
L85(t) ==
    /\ thr[t].pc = "l85"
    /\ balance' = Zero
    /\ Goto(t, "l86")
    /\ UNCHANGED <<position, entry_price, SeqVars>>

\* self.entry_price = current_price
L86(t) ==
    /\ thr[t].pc = "l86"
    /\ entry_price' = thr[t].price
    /\ Goto(t, "l100")
    /\ UNCHANGED <<balance, position, SeqVars>>

\* if self.position > 0:
L89(t) ==
    /\ thr[t].pc = "l89"
    /\ Goto(t, IF CanSell(position) THEN "l90" ELSE "l100")
    /\ UNCHANGED <<balance, position, entry_price, SeqVars>>

\* revenue = self.position * current_price; fee; and the right-hand side
\* revenue - fee
L90(t) ==
    /\ thr[t].pc = "l90"
    /\ LET revenue == Mul(position, thr[t].price)
           fee == Mul(revenue, FeeRate)
       IN  thr' = [thr EXCEPT ![t].x = Sub(revenue, fee), ![t].pc = "l92r"]
    /\ UNCHANGED <<balance, position, entry_price, SeqVars>>

\* self.balance += ...: the load of self.balance
L92Read(t) ==
    /\ thr[t].pc = "l92r"
    /\ thr' = [thr EXCEPT ![t].tmp = balance, ![t].pc = "l92w"]
    /\ UNCHANGED <<balance, position, entry_price, SeqVars>>

\* self.balance += ...: the store
L92Write(t) ==
    /\ thr[t].pc = "l92w"
    /\ balance' = Add(thr[t].tmp, thr[t].x)
    /\ Goto(t, "l93")
    /\ UNCHANGED <<position, entry_price, SeqVars>>

\* self.position = 0
L93(t) ==
    /\ thr[t].pc = "l93"
    /\ position' = Zero
    /\ Goto(t, "l97")
    /\ UNCHANGED <<balance, entry_price, SeqVars>>

\* reward = (current_price - self.entry_price) / self.entry_price
L97(t) ==
    /\ thr[t].pc = "l97"
    /\ thr' = [thr EXCEPT ![t].reward = SellReward(entry_price, thr[t].price),
                          ![t].pc = "l100"]
    /\ UNCHANGED <<balance, position, entry_price, SeqVars>>

\* total_value = self.balance + (self.position * current_price); return
L100(t) ==
    /\ thr[t].pc = "l100"
    /\ thr' = [thr EXCEPT ![t].total_value = Add(balance, Mul(position, thr[t].price)),
                          ![t].pc = "done"]
    /\ UNCHANGED <<balance, position, entry_price, SeqVars>>

NextConc ==
    \/ \E t \in Threads, a \in {1, 2}, f \in ConcFetches : Begin(t, a, f)
    \/ \E t \in Threads : L79(t)
    \/ \E t \in Threads : L81(t)
    \/ \E t \in Threads : L84Read(t)
    \/ \E t \in Threads : L84Write(t)
    \/ \E t \in Threads : L85(t)
    \/ \E t \in Threads : L86(t)
    \/ \E t \in Threads : L89(t)
    \/ \E t \in Threads : L90(t)
    \/ \E t \in Threads : L92Read(t)
    \/ \E t \in Threads : L92Write(t)
    \/ \E t \in Threads : L93(t)
    \/ \E t \in Threads : L97(t)
    \/ \E t \in Threads : L100(t)

SpecConc == InitConc /\ [][NextConc]_vars

\* The ledger that thread t's call leaves when it runs alone from ledger l.
Serial(l, t) ==
    StepOutcome(thr[t].action, thr[t].fetch, l.balance, l.position, l.entry_price).ledger

\* The ledgers the calls of the threads in todo leave when run one after
\* another, in every order.
RECURSIVE SerialFrom(_, _)
SerialFrom(l, todo) ==
    IF todo = {} THEN {l}
    ELSE UNION {SerialFrom(Serial(l, t), todo \ {t}) : t \in todo}

AllDone == \A t \in Threads : thr[t].pc = "done"

\* C2: concurrent step() calls are serialized: once they have all returned,
\* balance > 0 and position > 0 do not hold together and the ledger is the
\* one that running the calls in some serial order leaves.
SerializedLedger ==
    AllDone =>
        /\ ~(Gt(balance, Zero) /\ Gt(position, Zero))
        /\ Ledger(balance, position, entry_price)
               \in SerialFrom(Ledger(initial_balance, Zero, Zero), Threads)

============================================================================
